---- MODULE Spec2Model ----
(***************************************************************************)
(* playlistplaycount.py: a sequential script that obtains a bearer token,  *)
(* extracts a playlist id from its argument, pages through the playlist,   *)
(* applies --limit, asks the play-count endpoint once per track and sums   *)
(* the play counts it finds.  The environment (token file, clock, the      *)
(* three HTTP endpoints) is modelled as nondeterministic input.            *)
(***************************************************************************)
EXTENDS Integers, Sequences, FiniteSets, TLC

(* ------------------------------ bounds --------------------------------- *)
\* most pages a modelled playlist has
MaxPages == 3
\* items on a full page of the model (the server fills a page; the code never
\* looks at its length)
MaxItems == 2
\* most 401 answers the playlist endpoint gives in one run
Max401 == 2
\* largest server-reported expires_in
MaxTTL == 2
\* discs in an album record / tracks on a disc, for the lookup specification
MaxDiscs == 2
MaxDiscTracks == 2

(* ------------------------- program constants --------------------------- *)
\* params={'limit': 50, ...} and offset + 50
PageSize == 50
\* Retry(total=5, ...)
RetryTotal == 5
\* ([a-zA-Z0-9]{22})
IdLen == 22

(* --------------------------- optional values --------------------------- *)
\* Python's None / a present value
None == <<>>
Some(x) == <<x>>
Val(o) == o[1]

Min(a, b) == IF a <= b THEN a ELSE b
Max(a, b) == IF a >= b THEN a ELSE b

(* ------------------------------ HTTP client ---------------------------- *)
Statuses == {200, 401, 404, 500, 503}

\* variant: every 5xx answer of every method is retried
ForcedRetryWrong(method, status) == status >= 500
\* status_forcelist=[500]; urllib3 applies it to idempotent methods only
\* (Retry's default allowed methods: GET yes, POST no)
ForcedRetry(method, status) == method = "GET" /\ status = 500

\* variant: total counts the attempts, not the retries
AdapterOffByOne(method, prev, status) ==
    IF ForcedRetry(method, status)
    THEN IF Len(prev) + 1 < RetryTotal THEN "retry" ELSE "raise"
    ELSE "response"
\* What the adapter does with one response, `prev` being the statuses this
\* logical call has already received: send again, give up (RetryError), or
\* hand the response to the caller.
Adapter(method, prev, status) ==
    IF ForcedRetry(method, status)
    THEN IF Len(prev) < RetryTotal THEN "retry" ELSE "raise"
    ELSE "response"

\* variant: only 5xx answers raise
RaisesOnlyServerErrors(status) == status >= 500
\* variant: no answer raises
RaisesNever(status) == FALSE
\* Response.raise_for_status(): 4xx and 5xx raise HTTPError
RaisesForStatus(status) == status >= 400

(* ------------------------- characters and strings ---------------------- *)
\* strings the code inspects are sequences of one-character strings
Digits == {"0", "1", "7"}
LowerLetters == {"a", "b", "c", "d", "e", "f", "h", "i", "l", "m", "n", "o",
                 "p", "s", "t", "y", "z"}
UpperLetters == {"A", "B", "C", "D", "S", "P", "Z"}

\* [a-zA-Z0-9]
IsAlnum(c) == c \in Digits \cup LowerLetters \cup UpperLetters

\* case folding of (?i)
Lower(c) ==
    CASE c = "A" -> "a" [] c = "B" -> "b" [] c = "C" -> "c" [] c = "D" -> "d"
      [] c = "S" -> "s" [] c = "P" -> "p" [] c = "Z" -> "z" [] OTHER -> c

\* s starts, at position p (1-based), with the literal lit, ignoring case
StartsWithAt(s, p, lit) ==
    /\ p - 1 + Len(lit) <= Len(s)
    /\ \A i \in 1..Len(lit) : Lower(s[p - 1 + i]) = Lower(lit[i])

\* n alphanumeric characters from position p on
AlnumRunAt(s, p, n) ==
    /\ p - 1 + n <= Len(s)
    /\ \A i \in 1..n : IsAlnum(s[p - 1 + i])

SubStr(s, p, n) == [i \in 1..n |-> s[p - 1 + i]]

HttpPrefix == <<"h","t","t","p",":","/","/","o","p","e","n",".","s","p","o","t",
                "i","f","y",".","c","o","m","/","p","l","a","y","l","i","s","t","/">>
HttpsPrefix == <<"h","t","t","p","s",":","/","/","o","p","e","n",".","s","p","o","t",
                 "i","f","y",".","c","o","m","/","p","l","a","y","l","i","s","t","/">>
UriPrefix == <<"s","p","o","t","i","f","y",":","p","l","a","y","l","i","s","t",":">>

\* The positions at which the identifier group may start, in the order the
\* regex engine tries them: after https?://open.spotify.com/playlist/, after
\* spotify:playlist:, and (the prefix group being optional) at the start.
IdStarts(s) ==
    (IF StartsWithAt(s, 1, HttpsPrefix) THEN <<Len(HttpsPrefix) + 1>> ELSE <<>>)
    \o (IF StartsWithAt(s, 1, HttpPrefix) THEN <<Len(HttpPrefix) + 1>> ELSE <<>>)
    \o (IF StartsWithAt(s, 1, UriPrefix) THEN <<Len(UriPrefix) + 1>> ELSE <<>>)
    \o <<1>>

\* re.match(r'(?i)(?:https?://open\.spotify\.com/playlist/|spotify:playlist:)?
\*            ([a-zA-Z0-9]{22})', s): anchored at the start only; the result is
\* None or group(1)
ReMatch(s) ==
    LET ok == SelectSeq(IdStarts(s), LAMBDA p : AlnumRunAt(s, p, IdLen))
    IN  IF ok = <<>> THEN None ELSE Some(SubStr(s, ok[1], IdLen))

(* --------------------------- play-count lookup -------------------------- *)
\* uri.split(':')[-1]: the characters after the last ':' (all of them when
\* there is none)
RECURSIVE LastSegment(_)
LastSegment(uri) ==
    IF \E i \in 1..Len(uri) : uri[i] = ":"
    THEN LET first == CHOOSE i \in 1..Len(uri) :
                          uri[i] = ":" /\ \A j \in 1..(i - 1) : uri[j] # ":"
         IN  LastSegment(SubSeq(uri, first + 1, Len(uri)))
    ELSE uri

\* album_track['uri'].split(':')[-1] == track_id
UriMatches(uri, track_id) == LastSegment(uri) = track_id

\* variant: `if track_playcount:`
IsTruthy(v) == v # None /\ Val(v) # 0
\* `track_playcount is not None`
IsNotNone(v) == v # None

\* the inner loop over one disc: the playcount of its first matching track
RECURSIVE ScanDisc(_, _)
ScanDisc(disc_tracks, track_id) ==
    IF disc_tracks = <<>> THEN None
    ELSE IF UriMatches(Head(disc_tracks).uri, track_id)
         THEN Some(Head(disc_tracks).playcount)
         ELSE ScanDisc(Tail(disc_tracks), track_id)

\* the outer loop over the discs, left as soon as track_playcount is set
RECURSIVE ScanDiscs(_, _)
ScanDiscs(discs, track_id) ==
    IF discs = <<>> THEN None
    ELSE LET track_playcount == ScanDisc(Head(discs), track_id)
         IN  IF IsNotNone(track_playcount) THEN track_playcount
             ELSE ScanDiscs(Tail(discs), track_id)

(* ------------------------------ the backends --------------------------- *)
\* The tracks the playlist endpoint can serve: id and album id (name and
\* artists are only printed).
Catalog == <<
    [id |-> <<"A">>, album |-> "x"],
    [id |-> <<"B">>, album |-> "y"],
    [id |-> <<"C">>, album |-> "x"],
    [id |-> <<"D">>, album |-> "z"] >>
NTracks == Len(Catalog)

\* data['data']['discs'] of the play-count endpoint's answer for an album
AlbumData(album) ==
    CASE album = "x" ->
           << << [uri |-> <<"s",":","t",":","B","A">>, playcount |-> 3],
                 [uri |-> <<"s",":","t",":","A">>, playcount |-> 10] >>,
              << [uri |-> <<"s",":","t",":","C">>, playcount |-> 7],
                 [uri |-> <<"s",":","t",":","A">>, playcount |-> 99] >> >>
      [] album = "y" ->
           << << [uri |-> <<"s",":","t",":","B","B">>, playcount |-> 5] >>, << >> >>
      [] OTHER ->
           << << [uri |-> <<"D">>, playcount |-> 0],
                 [uri |-> <<"s",":","D">>, playcount |-> 4] >> >>

\* A playlist of n pages: pages 1..n-1 full, page n with m items; slot k of
\* the playlist holds catalog track ((k-1) mod NTracks)+1, slot z is a null
\* track (0), and with z = 0 no slot is.
MkList(n, m, z) ==
    [i \in 1..n |->
        [j \in 1..(IF i < n THEN MaxItems ELSE m) |->
            LET k == (i - 1) * MaxItems + j
            IN  IF k = z THEN 0 ELSE ((k - 1) % NTracks) + 1]]

\* the null slot, if any, is on the first page or opens the second
Playlists ==
    { MkList(n, m, z) : n \in 1..MaxPages, m \in 0..MaxItems, z \in 0..(MaxItems + 1) }

\* the playlist endpoint's 200 answer for an offset: the page's items and
\* whether `next` is set
PageAt(pages, offset) ==
    LET i == (offset \div PageSize) + 1
    IN  IF offset % PageSize = 0 /\ i <= Len(pages)
        THEN [items |-> pages[i], next |-> i < Len(pages)]
        ELSE [items |-> <<>>, next |-> FALSE]

\* variant: a null slot leaves a placeholder
KeepAll(items) ==
    [i \in 1..Len(items) |->
        IF items[i] = 0 THEN [id |-> <<>>, album |-> "none"] ELSE Catalog[items[i]]]
\* for item in data['items']: if item['track']: tracks.append(item['track'])
NonNull(items) ==
    LET kept == SelectSeq(items, LAMBDA it : it # 0)
    IN  [i \in 1..Len(kept) |-> Catalog[kept[i]]]

\* Python's tracks[:n]
SliceTo(s, n) ==
    IF n >= 0 THEN SubSeq(s, 1, Min(n, Len(s)))
    ELSE SubSeq(s, 1, Max(0, Len(s) + n))

\* `if args.limit:` is false for an absent limit and for 0
LimitGiven(limit) == limit # None /\ Val(limit) # 0

(* ------------------------------ the token ------------------------------ *)
\* auth_data['expires_time'] <= time.time()
Expired(expires_time, t) == expires_time <= t

\* variant: the lifetime is stored as if it were the expiry
NewExpiryNoClock(t, expires_in) == expires_in
\* data['expires_time'] = time.time() + data['expires_in']
NewExpiry(t, expires_in) == t + expires_in

\* what `with open('auth/auth.json')`, json.load and the two subscripts make
\* of the token file on entry
TokenFiles ==
    { [kind |-> k, tok |-> None, exp |-> None, ttl |-> None] :
          k \in {"missing", "unreadable", "corrupt"} }
    \cup { [kind |-> "json", tok |-> t, exp |-> e, ttl |-> None] :
          t \in {None, Some(0)}, e \in {None} \cup { Some(x) : x \in 0..2 } }

(* -------------------------------- state -------------------------------- *)
VARIABLES
    pc,              \* where the script is
    args,            \* argparse's result: playlist and limit
    file,            \* auth/auth.json
    header,          \* session.headers['Authorization']: None or the token
    now,             \* time.time()
    issued,          \* tokens the auth endpoint has handed out
    ret,             \* where get_access_token returns to
    call,            \* the logical HTTP call last made
    attempts,        \* the statuses that call has received, in order
    retrying,        \* the adapter is about to send that call again
    n401,            \* 401 answers of the playlist endpoint so far
    refreshes,       \* calls of get_access_token so far
    playlist_id,     \* the extracted id
    pages,           \* the playlist as the backend holds it
    offset,          \* get_playlist_tracks' offset
    tracks,          \* the accumulator, then the global `tracks`
    default_tracks,  \* the list made at line 50 as the default of `tracks`
    first_result,    \* what an earlier call of get_playlist_tracks returned
    fetched,         \* what get_playlist_tracks returned
    pageReqs,        \* offsets of the page calls made, in order
    idx,             \* position of the per-track loop
    total_playcount,
    pcReqs,          \* positions of the tracks a play-count call was made for
    results,         \* per processed track: the playcount printed, or None
    reported,        \* the total printed at the end
    lk,              \* an album record and a track id (lookup specification)
    lk_out           \* the lookup's result for them

vars == << pc, args, file, header, now, issued, ret, call, attempts, retrying,
           n401, refreshes, playlist_id, pages, offset, tracks, default_tracks,
           first_result, fetched, pageReqs, idx, total_playcount, pcReqs, results, reported, lk, lk_out >>

httpVars == << call, attempts, retrying >>
authVars == << file, header, now, issued >>
fetchVars == << playlist_id, offset, tracks, default_tracks, first_result, fetched,
               pageReqs, n401 >>
loopVars == << idx, total_playcount, pcReqs, results, reported >>
lookupVars == << lk, lk_out >>

\* the statuses the call in flight has received before the one arriving now
Prev == IF retrying THEN attempts ELSE <<>>

(* ------------------------------- inputs -------------------------------- *)
IdA == [i \in 1..IdLen |-> IF i % 2 = 1 THEN "a" ELSE "7"]
IdB == [i \in 1..IdLen |-> IF i % 3 = 0 THEN "Z" ELSE IF i % 3 = 1 THEN "b" ELSE "0"]

\* the three accepted forms of the playlist argument
ValidArgs ==
    { pre \o id : pre \in {<<>>, HttpsPrefix, HttpPrefix, UriPrefix,
                           <<"S","P","o","t","i","f","y",":","p","l","a","y","l","i","s","t",":">>},
                  id \in {IdA, IdB} }

\* arguments that are none of them: too short, too long, an unknown prefix, a
\* character outside the class, trailing text, nothing at all
OtherArgs ==
    { SubSeq(IdA, 1, IdLen - 1),
      IdA \o <<"y">>,
      IdB \o IdA,
      UriPrefix \o SubSeq(IdB, 1, IdLen - 1),
      UriPrefix \o IdB \o <<"0">>,
      HttpsPrefix \o IdA \o <<"?", "s", "i">>,
      <<"f", "o", "o", ":">> \o IdA,
      <<"z", "z">> \o IdA,
      <<"s","p","o","t","i","f","y",":","a","l","b","u","m",":">> \o IdA,
      SubSeq(IdA, 1, 10) \o <<"-">> \o SubSeq(IdA, 1, 11),
      <<>> }

\* --limit: absent, or the int argparse made of it
Limits == {None} \cup { Some(n) : n \in -2..3 }

(* -------------------------------- Init --------------------------------- *)
InitWith(Files, PlaylistArgs, LimitArgs, Lists) ==
    /\ pc = "auth"
    /\ args \in [playlist : PlaylistArgs, limit : LimitArgs]
    /\ file \in Files
    /\ pages \in Lists
    /\ header = None
    /\ now = 1
    /\ issued = 0
    /\ ret = "none"
    /\ call = "none"
    /\ attempts = <<>>
    /\ retrying = FALSE
    /\ n401 = 0
    /\ refreshes = 0
    /\ playlist_id = None
    /\ offset = 0
    /\ tracks = <<>>
    /\ default_tracks = <<>>
    /\ first_result = None
    /\ fetched = None
    /\ pageReqs = <<>>
    /\ idx = 0
    /\ total_playcount = 0
    /\ pcReqs = <<>>
    /\ results = <<>>
    /\ reported = None
    /\ lk = None
    /\ lk_out = None

(* ------------------------------- actions ------------------------------- *)
\* lines 77-90: read the token file, take its token, refresh when there is no
\* usable file or the token has expired.  KeyError and OSError other than
\* FileNotFoundError are not caught.
Startup ==
    /\ pc = "auth"
    /\ UNCHANGED << args, pages, file, now, issued, httpVars, fetchVars, loopVars, lookupVars >>
    /\ CASE file.kind \in {"missing", "corrupt"} ->
              /\ pc' = "exchange"
              /\ ret' = "extract"
              /\ refreshes' = refreshes + 1
              /\ header' = header
         [] file.kind = "unreadable" ->
              /\ pc' = "crashed"
              /\ UNCHANGED << ret, refreshes, header >>
         [] OTHER ->
              IF file.tok = None
              THEN /\ pc' = "crashed"
                   /\ UNCHANGED << ret, refreshes, header >>
              ELSE /\ header' = file.tok
                   /\ IF file.exp = None
                      THEN /\ pc' = "crashed"
                           /\ UNCHANGED << ret, refreshes >>
                      ELSE IF Expired(Val(file.exp), now)
                           THEN /\ pc' = "exchange"
                                /\ ret' = "extract"
                                /\ refreshes' = refreshes + 1
                           ELSE /\ pc' = "extract"
                                /\ UNCHANGED << ret, refreshes >>

\* session.post (lines 38-40) raising instead of returning: the network failed
\* and no status came back.  It stands in `attempts` where a status would.
NoResponse == 0

\* variant: the new token is written to the file only
HeaderKept(old, access_token) == old
\* session.headers['Authorization'] = f'Bearer {data["access_token"]}'
HeaderAfterExchange(old, access_token) == Some(access_token)

\* lines 34-48, get_access_token: one POST attempt and, on its answer, the
\* rest of the function.  The clock may have advanced when line 44 reads it.
Exchange ==
    /\ pc = "exchange"
    /\ UNCHANGED << args, pages, ret, refreshes, fetchVars, loopVars, lookupVars >>
    /\ \E status \in Statuses \cup {NoResponse}, d \in 0..1, expires_in \in 1..MaxTTL :
         LET out == Adapter("POST", Prev, status) IN
         /\ call' = "POST"
         /\ attempts' = Append(Prev, status)
         /\ retrying' = (out = "retry")
         /\ IF out = "retry"
            THEN UNCHANGED << pc, authVars >>
            ELSE IF out = "raise" \/ status = NoResponse \/ RaisesForStatus(status)
                 THEN /\ pc' = "crashed"
                      /\ UNCHANGED authVars
                 ELSE /\ now' = now + d
                      /\ issued' = issued + 1
                      /\ header' = HeaderAfterExchange(header, issued + 1)
                      /\ file' = [kind |-> "json", tok |-> Some(issued + 1),
                                  exp |-> Some(NewExpiry(now + d, expires_in)),
                                  ttl |-> Some(expires_in)]
                      /\ pc' = ret

\* lines 92-99: extract the playlist id or exit with code 1
Extract ==
    /\ pc = "extract"
    /\ UNCHANGED << args, pages, ret, refreshes, authVars, httpVars, loopVars, lookupVars,
                    offset, tracks, default_tracks, first_result, fetched, pageReqs, n401 >>
    /\ LET m == ReMatch(args.playlist) IN
         IF m # None
         THEN /\ playlist_id' = m
              /\ pc' = "fetch"
         ELSE /\ playlist_id' = Some(args.playlist)
              /\ pc' = "exit1"

\* variant: the page in flight is skipped
OffsetAfter401Skips(o) == o + PageSize
\* The offset get_playlist_tracks asks for after a 401 (line 63) and after a
\* page that has a next one (line 73)
OffsetAfter401(o) == o
OffsetAfterPage(o) == o + PageSize

\* variant: the first page is taken for the last
MorePagesNever(data) == FALSE
\* 'next' in data and data['next']
MorePages(data) == data.next

\* lines 50-75, get_playlist_tracks: one GET attempt for the page at `offset`
\* and, on its answer, the rest of the call: refresh and ask again on 401,
\* raise on another error, else append the page's tracks and go on to the
\* next page or return.
Fetch ==
    /\ pc = "fetch"
    /\ UNCHANGED << args, pages, authVars, playlist_id, first_result, loopVars, lookupVars >>
    /\ \E status \in Statuses :
         LET out == Adapter("GET", Prev, status)
             data == PageAt(pages, offset)
         IN
         /\ status = 401 => n401 < Max401
         /\ call' = "page"
         /\ attempts' = Append(Prev, status)
         /\ retrying' = (out = "retry")
         /\ pageReqs' = IF retrying THEN pageReqs ELSE Append(pageReqs, offset)
         /\ CASE out = "retry" ->
                   UNCHANGED << pc, ret, refreshes, n401, offset, tracks, fetched >>
              [] out = "raise" ->
                   /\ pc' = "crashed"
                   /\ UNCHANGED << ret, refreshes, n401, offset, tracks, fetched >>
              [] OTHER ->
                   IF status = 401
                   THEN /\ n401' = n401 + 1
                        /\ refreshes' = refreshes + 1
                        /\ ret' = "fetch"
                        /\ pc' = "exchange"
                        /\ offset' = OffsetAfter401(offset)
                        /\ UNCHANGED << tracks, fetched >>
                   ELSE IF RaisesForStatus(status)
                        THEN /\ pc' = "crashed"
                             /\ UNCHANGED << ret, refreshes, n401, offset, tracks, fetched >>
                        ELSE /\ tracks' = tracks \o NonNull(data.items)
                             /\ UNCHANGED << ret, refreshes, n401 >>
                             /\ IF MorePages(data)
                                THEN /\ offset' = OffsetAfterPage(offset)
                                     /\ UNCHANGED << pc, fetched >>
                                ELSE /\ fetched' = Some(tracks')
                                     /\ pc' = "limit"
                                     /\ UNCHANGED offset
         \* the accumulator is the default list: what is appended stays in it
         /\ default_tracks' = tracks'

\* lines 104-112: apply --limit, reset the total
ApplyLimit ==
    /\ pc = "limit"
    /\ UNCHANGED << args, pages, ret, refreshes, authVars, httpVars, lookupVars,
                    playlist_id, offset, default_tracks, first_result, fetched, pageReqs,
                    n401, pcReqs, results, reported >>
    /\ tracks' = IF LimitGiven(args.limit) THEN SliceTo(tracks, Val(args.limit)) ELSE tracks
    /\ total_playcount' = 0
    /\ idx' = 1
    /\ pc' = "loop"

\* variant: a track without a playcount resets the total
TotalAfterAlways(total, track_playcount) ==
    IF IsNotNone(track_playcount) THEN total + Val(track_playcount) ELSE 0
\* total_playcount after a track whose lookup gave track_playcount (lines 144-150)
TotalAfter(total, track_playcount) ==
    IF IsNotNone(track_playcount) THEN total + Val(track_playcount) ELSE total

\* variant: the loop steps over a track
NextTrackSkips(i) == i + 2
\* `for track in tracks`: the position after i
NextTrack(i) == i + 1

\* lines 118-152, one pass of the per-track loop: one GET attempt for the
\* track's album and, on its answer, the lookup and the running total
Loop ==
    /\ pc = "loop"
    /\ idx <= Len(tracks)
    /\ UNCHANGED << args, pages, ret, refreshes, authVars, fetchVars, lookupVars, reported >>
    /\ \E status \in Statuses :
         LET out == Adapter("GET", Prev, status)
             track == tracks[idx]
             track_playcount == ScanDiscs(AlbumData(track.album), track.id)
         IN
         /\ call' = "playcount"
         /\ attempts' = Append(Prev, status)
         /\ retrying' = (out = "retry")
         /\ pcReqs' = IF retrying THEN pcReqs ELSE Append(pcReqs, idx)
         /\ CASE out = "retry" ->
                   UNCHANGED << pc, idx, total_playcount, results >>
              [] out = "raise" \/ RaisesForStatus(status) ->
                   /\ pc' = "crashed"
                   /\ UNCHANGED << idx, total_playcount, results >>
              [] OTHER ->
                   /\ results' = Append(results, track_playcount)
                   /\ total_playcount' = TotalAfter(total_playcount, track_playcount)
                   /\ idx' = NextTrack(idx)
                   /\ pc' = pc

\* lines 154-156: the loop is over, print the total
Report ==
    /\ pc = "loop"
    /\ idx > Len(tracks)
    /\ reported' = Some(total_playcount)
    /\ pc' = "done"
    /\ UNCHANGED << args, pages, ret, refreshes, authVars, httpVars, fetchVars, lookupVars,
                    idx, total_playcount, pcReqs, results >>

Next == Startup \/ Exchange \/ Extract \/ Fetch \/ ApplyLimit \/ Loop \/ Report

\* The script with a few values of every input.  The product of the full
\* input sets is too large to enumerate, so each specification below varies
\* one group of inputs in full and fixes the others; all run the same Next.
Init ==
    InitWith(TokenFiles, {IdA, UriPrefix \o IdB, IdA \o <<"y">>, <<>>},
             {None, Some(0), Some(1)}, {MkList(1, 1, 0), MkList(2, 1, 1)})
Spec == Init /\ [][Next]_vars

FreshFile == [kind |-> "json", tok |-> Some(0), exp |-> Some(2), ttl |-> None]
\* playlists of 0..MaxItems tracks on one page, and one of three pages
CountLists == { MkList(1, m, 0) : m \in 0..MaxItems } \cup { MkList(3, 1, 0) }

\* the token file varied
InitAuth == InitWith(TokenFiles, {IdA, <<>>}, {None}, {MkList(1, 1, 0), MkList(2, 1, 0)})
SpecAuth == InitAuth /\ [][Next]_vars

\* the playlist varied (and --limit 1, which keeps the per-track loop short)
InitFetch == InitWith({FreshFile}, {IdA}, {Some(1)}, Playlists)
SpecFetch == InitFetch /\ [][Next]_vars

\* --limit and the playlist's length varied
InitCount == InitWith({FreshFile}, {IdA}, Limits, CountLists)
SpecCount == InitCount /\ [][Next]_vars

\* the playlist argument varied
InitArgs ==
    InitWith({FreshFile, [FreshFile EXCEPT !.kind = "missing"]},
             ValidArgs \cup OtherArgs, {None}, {MkList(1, 1, 0)})
SpecArgs == InitArgs /\ [][Next]_vars

(* ----------------- get_playlist_tracks called a second time ----------------- *)
\* get_playlist_tracks(playlist_id) called again in the same process once the
\* first call has returned: with no accumulator handed in, `tracks` is bound
\* to the default of line 50, the one list made when the function was defined
CallAgain ==
    /\ pc = "limit"
    /\ first_result = None
    /\ first_result' = fetched
    /\ fetched' = None
    /\ offset' = 0
    /\ tracks' = default_tracks
    /\ pc' = "fetch"
    /\ UNCHANGED << args, pages, ret, refreshes, authVars, httpVars, loopVars, lookupVars,
                    playlist_id, default_tracks, pageReqs, n401 >>

NextTwice == Startup \/ Exchange \/ Extract \/ Fetch \/ CallAgain
SpecTwice == InitFetch /\ [][NextTwice]_vars

(* ------------------------ the lookup on its own ------------------------ *)
\* uris of album tracks: one whose last segment is the id "A", one whose last
\* segment only ends with it, one that has it as an earlier segment
Uris == { <<"s", ":", "A">>, <<"s", ":", "B", "A">>, <<"A", ":", "s">> }

\* the uris of an album record, disc by disc
AlbumShapes ==
    LET DiscShapes == UNION { [1..m -> Uris] : m \in 0..MaxDiscTracks }
    IN  UNION { [1..n -> DiscShapes] : n \in 0..MaxDiscs }

\* An album record of that shape: the track at disc d, position t has
\* playcount 10*d + t, except that with zero = t it has 0.
MkAlbum(shape, zero) ==
    [d \in 1..Len(shape) |->
        [t \in 1..Len(shape[d]) |->
            [uri |-> shape[d][t],
             playcount |-> IF t = zero THEN 0 ELSE 10 * d + t]]]

InitLookup ==
    /\ pc = "lookup"
    /\ lk \in { Some([discs |-> MkAlbum(sh, z), track_id |-> <<"A">>]) :
                  sh \in AlbumShapes, z \in {0, 1} }
    /\ lk_out = None
    /\ args = [playlist |-> <<>>, limit |-> None]
    /\ file = FreshFile
    /\ pages = <<>>
    /\ header = None
    /\ now = 1
    /\ issued = 0
    /\ ret = "none"
    /\ call = "none"
    /\ attempts = <<>>
    /\ retrying = FALSE
    /\ n401 = 0
    /\ refreshes = 0
    /\ playlist_id = None
    /\ offset = 0
    /\ tracks = <<>>
    /\ default_tracks = <<>>
    /\ first_result = None
    /\ fetched = None
    /\ pageReqs = <<>>
    /\ idx = 0
    /\ total_playcount = 0
    /\ pcReqs = <<>>
    /\ results = <<>>
    /\ reported = None

\* lines 134-142 applied to one album record and one track id
Lookup ==
    /\ pc = "lookup"
    /\ lk_out' = Some(ScanDiscs(Val(lk).discs, Val(lk).track_id))
    /\ pc' = "looked"
    /\ UNCHANGED << args, pages, ret, refreshes, authVars, httpVars, fetchVars, loopVars, lk >>

SpecLookup == InitLookup /\ [][Lookup]_vars

(* ============================== claims ================================= *)
RECURSIVE Concat(_)
Concat(ss) == IF ss = <<>> THEN <<>> ELSE Head(ss) \o Concat(Tail(ss))

\* the tracks of a playlist: every page's items in order, null slots left out
TracksOf(ps) ==
    LET slots == SelectSeq(Concat(ps), LAMBDA it : it # 0)
    IN  [i \in 1..Len(slots) |-> Catalog[slots[i]]]

\* 0, 50, ..., 50*(n-1)
OffsetsUpTo(n) == [i \in 1..n |-> 50 * (i - 1)]

\* s without the elements equal to their predecessor
Dedup(s) == SelectSeq([i \in 1..Len(s) |-> IF i > 1 /\ s[i] = s[i - 1] THEN -1 ELSE s[i]],
                      LAMBDA x : x # -1)

\* C1: when the playlist endpoint serves the N pages of a playlist and never
\* answers 401, get_playlist_tracks makes exactly N page calls, at offsets
\* 0, 50, ..., 50*(N-1) in that order, and returns the pages' items in
\* order, null slots left out and nothing put in their place.
C1_Pagination ==
    n401 = 0 =>
      /\ Len(pageReqs) <= Len(pages)
      /\ pageReqs = OffsetsUpTo(Len(pageReqs))
      /\ fetched # None =>
           /\ pageReqs = OffsetsUpTo(Len(pages))
           /\ Val(fetched) = TracksOf(pages)

C1_Witness ==
    /\ fetched # None
    /\ n401 = 0
    /\ Len(pages) = 3
    /\ \E i \in 1..Len(pages) : \E j \in 1..Len(pages[i]) : pages[i][j] = 0
    /\ Len(Val(fetched)) = 4

\* C2: every 401 answer to a page call causes exactly one call of
\* get_access_token and then a page call at the same offset, and the tracks
\* returned in the end are those a run without any 401 returns: same tracks,
\* same order, none twice, none missing.
C2_RefreshAndRepeat ==
    /\ refreshes = n401
    /\ Len(pageReqs) <= Len(Dedup(pageReqs)) + n401
    /\ Dedup(pageReqs) = OffsetsUpTo(Len(Dedup(pageReqs)))
    /\ (pc = "exchange" /\ ret = "fetch") =>
          pageReqs[Len(pageReqs)] = offset
    /\ fetched # None =>
          /\ Len(pageReqs) = Len(pages) + n401
          /\ Dedup(pageReqs) = OffsetsUpTo(Len(pages))
          /\ Val(fetched) = TracksOf(pages)

C2_Witness ==
    /\ fetched # None
    /\ n401 = 2
    /\ pageReqs = <<0, 50, 50, 50>>
    /\ Len(Val(fetched)) = 3

\* the startup step is over and no HTTP call has been made yet
JustStarted == pc # "auth" /\ pc # "lookup" /\ call = "none"

\* the token file is missing, unreadable or corrupt (JSON without the
\* access_token or expires_time field included), or its expires_time is not
\* later than t
NoUsableToken(f, t) ==
    \/ f.kind \in {"missing", "unreadable", "corrupt"}
    \/ f.tok = None
    \/ f.exp = None
    \/ Val(f.exp) <= t

\* C3: at startup the credentials are exchanged exactly when the token file
\* is missing, unreadable or corrupt (a file that parses but lacks
\* access_token or expires_time included) or its expires_time is not later
\* than the current time; in every other case the stored token is reused, no
\* exchange is made and the run goes on to the playlist.
C3_ExchangeIffNoUsableToken ==
    JustStarted =>
      IF NoUsableToken(file, now)
      THEN pc = "exchange" /\ refreshes = 1
      ELSE pc = "extract" /\ refreshes = 0 /\ header = file.tok

AfterLastColon(uri) ==
    LET colons == { i \in 1..Len(uri) : uri[i] = ":" }
    IN  IF colons = {} THEN uri
        ELSE SubSeq(uri, (CHOOSE i \in colons : \A j \in colons : j <= i) + 1, Len(uri))

\* the places <<disc, position>> of an album record whose track matches id
MatchesIn(discs, id) ==
    { <<d, t>> \in (1..Len(discs)) \X (1..MaxDiscTracks + 1) :
          t <= Len(discs[d]) /\ AfterLastColon(discs[d][t].uri) = id }

\* place a comes before place b: an earlier disc, or earlier on the same disc
Before(a, b) == a[1] < b[1] \/ (a[1] = b[1] /\ a[2] <= b[2])

\* C6: the lookup yields the playcount of the first track, discs in order
\* and tracks in order within a disc, whose uri's last ':'-separated segment
\* is the track id, whatever matches after it; without any match it yields
\* not-found; a first match with playcount 0 is found, with value 0.
C6_FirstMatchWins ==
    lk_out # None =>
      LET discs == Val(lk).discs
          found == MatchesIn(discs, Val(lk).track_id)
      IN  IF found = {} THEN Val(lk_out) = None
          ELSE LET first == CHOOSE a \in found : \A b \in found : Before(a, b)
               IN  Val(lk_out) = Some(discs[first[1]][first[2]].playcount)

C6_Witness ==
    /\ lk_out # None
    /\ Val(lk_out) = Some(0)
    /\ Cardinality(MatchesIn(Val(lk).discs, Val(lk).track_id)) >= 2
    /\ \E a \in MatchesIn(Val(lk).discs, Val(lk).track_id) : a[1] = 2 /\ a[2] = 2

\* the playcount the play-count endpoint holds for a catalog track, if any
KnownPlaycount(track) ==
    CASE track.id = <<"A">> -> Some(10)
      [] track.id = <<"C">> -> Some(7)
      [] track.id = <<"D">> -> Some(0)
      [] OTHER -> None

\* the playcounts found among the first n tracks, summed
RECURSIVE FoundSum(_, _)
FoundSum(ts, n) ==
    IF n = 0 THEN 0
    ELSE FoundSum(ts, n - 1)
         + (IF KnownPlaycount(ts[n]) = None THEN 0 ELSE Val(KnownPlaycount(ts[n])))

\* C7: a track without a playcount does not end the run: the tracks after it
\* are processed in order, after each track the running total is the sum of
\* the playcounts of the processed tracks that have one, and the total
\* printed at the end is that sum over all the tracks (only an HTTP error
\* ends the loop early).
C7_NotFoundGoesOn ==
    pc \in {"loop", "done", "crashed"} /\ idx >= 1 =>
      /\ Len(results) = idx - 1
      /\ \A i \in 1..Len(results) : results[i] = KnownPlaycount(tracks[i])
      /\ total_playcount = FoundSum(tracks, idx - 1)
      /\ pc = "crashed" => attempts[Len(attempts)] >= 400
      /\ pc = "done" => /\ idx = Len(tracks) + 1
                        /\ reported = Some(FoundSum(tracks, Len(tracks)))

C7_Witness ==
    /\ pc = "done"
    /\ [i \in 1..Len(tracks) |-> tracks[i].id] = << <<"A">>, <<"B">>, <<"C">> >>
    /\ results = << Some(10), None, Some(7) >>
    /\ reported = Some(17)

\* C8: with --limit N on M fetched tracks, the tracks processed are the first
\* min(N, M) fetched tracks in order, for every integer N; for N = 0 and for
\* negative N none is.
C8_LimitCaps ==
    (pc = "done" /\ args.limit # None) =>
      LET k == Max(0, Min(Val(args.limit), Len(Val(fetched))))
      IN  /\ pcReqs = [i \in 1..k |-> i]
          /\ tracks = SubSeq(Val(fetched), 1, k)

\* s is a 22-character alphanumeric id, bare or behind one of the prefixes
\* (taken as the code takes them: either case, http or https)
IsAcceptedForm(s) ==
    \E pre \in {<<>>, HttpsPrefix, HttpPrefix, UriPrefix} :
        /\ Len(s) = Len(pre) + 22
        /\ StartsWithAt(s, 1, pre)
        /\ \A i \in (Len(pre) + 1)..Len(s) : IsAlnum(s[i])

\* the last 22 characters of s
TokenOf(s) == SubSeq(s, Len(s) - 21, Len(s))

\* the id extraction (lines 92-99) has run
Extracted == pc \in {"fetch", "limit", "loop", "done", "exit1"} \/ (pc = "crashed" /\ playlist_id # None)

\* C9: for a bare 22-character alphanumeric id and for such an id behind
\* https://open.spotify.com/playlist/ or spotify:playlist: the extracted id
\* is the 22-character token; for every other argument (too short, more than
\* 22 alphanumeric characters, an unknown prefix) the program exits with
\* code 1 without a playlist-page or play-count call.
C9_IdOrExit ==
    Extracted =>
      IF IsAcceptedForm(args.playlist)
      THEN pc # "exit1" /\ playlist_id = Some(TokenOf(args.playlist))
      ELSE pc = "exit1" /\ pageReqs = <<>> /\ pcReqs = <<>>

\* a token refresh has just succeeded: the exchange was answered 200 and no
\* other HTTP call has been made since
JustRefreshed == call = "POST" /\ attempts = <<200>>

\* C10: right after a successful token refresh, at startup or on a 401, the
\* expires_time in the token file is the time of the refresh plus the
\* server-reported expires_in, is later than that time, and the startup check
\* does not take the token for expired.
C10_FreshTokenNotExpired ==
    JustRefreshed =>
      /\ file.kind = "json"
      /\ file.exp = Some(now + Val(file.ttl))
      /\ Val(file.exp) > now
      /\ ~Expired(Val(file.exp), now)

C10_Witness ==
    /\ JustRefreshed
    /\ n401 = 1
    /\ refreshes = 2
    /\ now = 3
    /\ file.exp = Some(4)

\* the answer to the request made last
LastStatus == attempts[Len(attempts)]

\* C11: the token file changes only in the step in which a credential
\* exchange is answered 200 and get_access_token returns; a credential
\* exchange that is answered with an error status, or not answered at all,
\* ends the run and leaves the token file and the Authorization header as
\* they were.
C11_FileWrittenOnlyByRefresh ==
    [][ /\ file' # file =>
              /\ pc = "exchange"
              /\ call' = "POST"
              /\ attempts'[Len(attempts')] = 200
              /\ pc' = ret
        /\ (pc = "exchange" /\ attempts'[Len(attempts')] # 200) =>
              /\ pc' = "crashed"
              /\ file' = file
              /\ header' = header
        /\ pc # "crashed" ]_vars
\* a refresh after a 401 failed: the file and the header keep the token of the
\* refresh at startup
C11_Witness ==
    /\ pc = "crashed"
    /\ call = "POST"
    /\ LastStatus \in {401, NoResponse}
    /\ n401 = 1
    /\ issued = 1
    /\ file.tok = Some(1)
    /\ header = Some(1)

\* how many requests were started for the page at offset o
RequestsFor(o) == Len(SelectSeq(pageReqs, LAMBDA x : x = o))

\* C12: the number of requests get_playlist_tracks makes for one page is
\* bounded whatever the endpoint answers: no page is requested more than
\* Max401 times.
C12_PageRequestsBounded ==
    \A i \in 1..Len(pageReqs) : RequestsFor(pageReqs[i]) <= Max401

\* a page or play-count request answered with an error status that is not
\* recovered: not a 500 the adapter retries, not a 401 on a playlist page
FatalAnswer ==
    /\ call \in {"page", "playcount"}
    /\ ~retrying
    /\ LastStatus >= 400
    /\ ~(call = "page" /\ LastStatus = 401)

C14_SecondCallStartsEmpty ==
    (pc = "limit" /\ first_result # None) => Val(fetched) = TracksOf(pages)

\* C15: play-count requests are made for the tracks 1, 2, ... of the
\* processed sequence in that order, one per track whether or not an earlier
\* track had the same album; the request for a track is made only when every
\* track before it has been reported, and a completed run has made as many
\* requests as there are processed tracks.
C15_OneRequestPerTrack ==
    /\ \A i \in 1..Len(pcReqs) : pcReqs[i] = i
    /\ Len(pcReqs) <= Len(tracks)
    /\ Len(pcReqs) \in {Len(results), Len(results) + 1}
    /\ pc = "done" => Len(pcReqs) = Len(tracks)
\* five tracks, the first and the third of the same album, five requests
C15_Witness ==
    /\ pc = "done"
    /\ Len(tracks) = 5
    /\ tracks[1].album = tracks[3].album
    /\ pcReqs = <<1, 2, 3, 4, 5>>

\* C16: when the playlist argument is not accepted the script exits with
\* code 1 having made no HTTP request and having left the token file alone.
C16_ExitBeforeAnyRequest ==
    pc = "exit1" => (call = "none" /\ issued = 0)

\* C17: when a playlist page or a play-count request is about to be sent,
\* the session has an Authorization header and its token is the
\* access_token in the token file.
C17_HeaderIsFileToken ==
    (pc = "fetch" \/ (pc = "loop" /\ idx <= Len(tracks))) =>
        (header # None /\ header = file.tok)
\* a play-count request is due after a refresh at startup and one on a 401
C17_Witness ==
    /\ pc = "loop"
    /\ idx <= Len(tracks)
    /\ issued = 2
    /\ n401 = 1
    /\ header = Some(2)

\* C18: once a play-count request has been made no page request is made;
\* when the per-track loop starts every page of the playlist has been
\* requested, whatever --limit is; the total is reported once, in the step
\* that follows the last processed track's report.
C18_PagesThenTracksThenTotal ==
    /\ [][pcReqs' # <<>> => pageReqs' = pageReqs]_vars
    /\ [](pc \in {"loop", "done"} => Dedup(pageReqs) = OffsetsUpTo(Len(pages)))
    /\ [][reported' # reported =>
              /\ reported = None
              /\ Len(results) = Len(tracks)
              /\ pc' = "done"]_vars
    /\ [](pc = "done" <=> reported # None)
\* --limit 1 on a playlist of three pages: three page requests, one
\* play-count request, the total reported
C18_Witness ==
    /\ pc = "done"
    /\ args.limit = Some(1)
    /\ Len(pages) = 3
    /\ pageReqs = <<0, 50, 100>>
    /\ pcReqs = <<1>>
    /\ reported # None

====
